---- MODULE Spec2Model ----
(***************************************************************************)
(* A model of lib/tools.js: walk (the capability tree builder), fromCallback *)
(* (the callback adapter) and promisify (the dual-mode patcher).           *)
(*                                                                         *)
(* Property names are sequences of ASCII codes, so that the two regular    *)
(* expressions of walk and String.prototype.toLowerCase are computed on    *)
(* the characters.  A JavaScript object whose key order matters (a         *)
(* prototype, a constructor's own properties, tree.methods, tree.objects)  *)
(* is a sequence of [key, value] entries in insertion order, which is the  *)
(* order Object.keys returns.                                              *)
(***************************************************************************)
EXTENDS Integers, Sequences, FiniteSets, TLC

VARIABLES
    ctor,       \* the behavior definition (constructor function) of the instance
    heap,       \* live objects: id -> own properties (key -> value)
    tree,       \* result of the last top-level walk call
    walkErr,    \* error raised by the last top-level walk call
    walkArgs,   \* the arguments of the last top-level walk call
    plog,       \* the promisify calls made so far: [client, threw, error]
    calls,      \* invocations of operation slots made by the consumer
    origCalls,  \* invocations of original (unpatched) operations
    futures,    \* promises created by fromCallback
    cbLog,      \* invocations of consumer-supplied callbacks
    adapterCalls \* number of invocations of wrapCallback

vars == <<ctor, heap, tree, walkErr, walkArgs, plog, calls, origCalls, futures,
          cbLog, adapterCalls>>

----------------------------------------------------------------------------
(* Bounds *)

MaxPromisify == 2
MaxCalls == 1
MaxLater == 1
MaxAdapterCalls == 2
MaxOutstanding == 2
MaxCompletions == 2

----------------------------------------------------------------------------
(* Property names *)

k_list  == <<108, 105, 115, 116>>
k_get   == <<103, 101, 116>>
k_log   == <<95, 108, 111, 103>>
k_meta  == <<109, 101, 116, 97>>
k_Emit  == <<69, 109, 105, 116>>
k_Inner == <<73, 110, 110, 101, 114>>
k_inner == <<105, 110, 110, 101, 114>>
k_KV    == <<75, 86>>
k_kv    == <<107, 118>>
k_Outer == <<79, 117, 116, 101, 114>>

\* Mutant: the regular expression without its anchor, /[a-z]+/
MatchLowerAnywhere(key) == \E i \in 1..Len(key) : key[i] \in 97..122

\* key.match(/^[a-z]+/)
MatchLower(key) == Len(key) >= 1 /\ key[1] \in 97..122

\* key.match(/^[A-Z]+/)
MatchUpper(key) == Len(key) >= 1 /\ key[1] \in 65..90

\* key.toLowerCase()
toLowerCase(key) ==
    [i \in 1..Len(key) |-> IF key[i] \in 65..90 THEN key[i] + 32 ELSE key[i]]

----------------------------------------------------------------------------
(* JavaScript objects with ordered keys *)

Keys(o) == {o[i].key : i \in 1..Len(o)}

Has(o, k) == k \in Keys(o)

Get(o, k) == o[CHOOSE i \in 1..Len(o) : o[i].key = k].value

Put(o, k, v) ==
    IF Has(o, k)
    THEN [i \in 1..Len(o) |-> IF o[i].key = k THEN [key |-> k, value |-> v] ELSE o[i]]
    ELSE Append(o, [key |-> k, value |-> v])

E(k, v) == [key |-> k, value |-> v]

----------------------------------------------------------------------------
(* JavaScript values *)

Undefined == [t |-> "undefined"]
Null      == [t |-> "null"]
Num(n)    == [t |-> "number", n |-> n]
Str(s)    == [t |-> "string", s |-> s]
Err(s)    == [t |-> "error", message |-> s]
Obj(id)   == [t |-> "object", id |-> id]

\* ToBoolean
Truthy(v) ==
    CASE v.t = "undefined" -> FALSE
      [] v.t = "null"      -> FALSE
      [] v.t = "number"    -> v.n # 0
      [] v.t = "string"    -> v.s # ""
      [] OTHER             -> TRUE

\* typeof v === 'function'
IsFunction(v) == v.t = "function"

----------------------------------------------------------------------------
(* Behavior definitions: constructor functions.                            *)
(*   name      : the function's name                                       *)
(*   prototype : own enumerable properties of obj.prototype                *)
(*   props     : own enumerable properties of the function itself          *)
(*               (meta, nested constructors, anything else)                *)

\* The function stored at prototype[key] of the definition named defName.
Original(defName, key) ==
    [t |-> "function", kind |-> "original", def |-> defName, key |-> key]

MkProto(defName, keys) ==
    [i \in 1..Len(keys) |-> E(keys[i], Original(defName, keys[i]))]

MkDef(name, keys, props) ==
    [t |-> "function", kind |-> "constructor", name |-> name,
     prototype |-> MkProto(name, keys), props |-> props]

\* Indices of the nested constructors among the own properties of def
Nested(def) == {i \in 1..Len(def.props) : MatchUpper(def.props[i].key)}

Accessor(def, i) == toLowerCase(def.props[i].key)

\* The accessor chains the nested constructors of def declare
RECURSIVE AllPaths(_)
AllPaths(def) ==
    {<<>>} \cup UNION {{<<Accessor(def, i)>> \o q : q \in AllPaths(def.props[i].value)} :
                        i \in Nested(def)}

\* The constructor reached from def through the accessors of path
RECURSIVE DefAt(_, _)
DefAt(def, path) ==
    IF path = <<>> THEN def
    ELSE LET i == CHOOSE i \in Nested(def) : Accessor(def, i) = Head(path)
         IN  DefAt(def.props[i].value, Tail(path))

\* A second instance of the definition: its objects are identified by
\* <<k_second>> followed by the chain of accessors from that instance
k_second == <<50>>                         \* "2", not an accessor
IsSecond(id) == id # <<>> /\ id[1] = k_second
PathOf(id) == IF IsSecond(id) THEN Tail(id) ELSE id

\* client.constructor for the live object id
CtorOf(id) == DefAt(ctor, PathOf(id))

----------------------------------------------------------------------------
(* walk, lib/tools.js lines 11-57 *)

\* Mutant: the metadata map is not consulted
MethodTypeDefaultOnly(obj, key) == "callback"

\* meta[key] && meta[key].type || 'callback', with meta = obj.meta || {}
MethodType(obj, key) ==
    LET meta == IF Has(obj.props, k_meta) THEN Get(obj.props, k_meta) ELSE <<>>
    IN  IF ~Has(meta, key) THEN "callback"
        ELSE LET e == Get(meta, key)
             IN  IF "type" \in DOMAIN e /\ e.type # "" THEN e.type ELSE "callback"

RECURSIVE walk(_, _, _, _)
RECURSIVE walkPrototype(_, _, _)
RECURSIVE walkProps(_, _, _)

\* Object.keys(obj.prototype).forEach(...), from the i-th key on
walkPrototype(obj, t, i) ==
    IF i > Len(obj.prototype) THEN t
    ELSE LET key == obj.prototype[i].key
             v   == obj.prototype[i].value
             t1  == IF "methods" \in DOMAIN t THEN t ELSE [methods |-> <<>>] @@ t
             d   == [name |-> key, value |-> v, type |-> MethodType(obj, key)]
         IN  IF ~MatchLower(key) THEN walkPrototype(obj, t, i + 1)
             ELSE walkPrototype(obj, [t1 EXCEPT !.methods = Put(@, key, d)], i + 1)

\* Object.keys(obj).forEach(...), from the i-th key on
walkProps(obj, t, i) ==
    IF i > Len(obj.props) THEN t
    ELSE LET key == obj.props[i].key
             v   == obj.props[i].value
             t1  == IF "objects" \in DOMAIN t THEN t ELSE [objects |-> <<>>] @@ t
             sub == walk(3, v, key, [name |-> key, value |-> v]).tree
         IN  IF ~MatchUpper(key) THEN walkProps(obj, t, i + 1)
             ELSE walkProps(obj, [t1 EXCEPT !.objects = Put(@, key, sub)], i + 1)

\* Mutant: every call with three or more arguments takes the case 3 branch
walkAtLeastThree(argc, obj, name, t) ==
    LET start == CASE argc = 1 -> [name |-> obj.name]
                   [] argc = 2 -> [name |-> name]
                   [] OTHER    -> t
    IN  IF argc < 1
        THEN [threw |-> TRUE, error |-> Err("invalid arguments"), tree |-> Undefined]
        ELSE [threw |-> FALSE, error |-> Undefined,
              tree |-> walkProps(obj, walkPrototype(obj, start, 1), 1)]

\* walk called with argc arguments; returns [threw, error, tree]
walk(argc, obj, name, t) ==
    LET start == CASE argc = 1 -> [name |-> obj.name]
                   [] argc = 2 -> [name |-> name]
                   [] OTHER    -> t
    IN  IF argc \notin {1, 2, 3}
        THEN [threw |-> TRUE, error |-> Err("invalid arguments"), tree |-> Undefined]
        ELSE [threw |-> FALSE, error |-> Undefined,
              tree |-> walkProps(obj, walkPrototype(obj, start, 1), 1)]

----------------------------------------------------------------------------
(* Live objects.  An object is identified by the chain of accessors that   *)
(* leads to it from the instance (the instance itself is <<>>).            *)
(*   heap[id].own  : the object's own properties                           *)
(* Its constructor, and so its prototype, is the one ctor declares there.   *)

\* client[key] for an object: own property, else the prototype's
Lookup(h, client, key) ==
    LET o == h[client.id]
    IN  IF key \in DOMAIN o.own THEN o.own[key]
        ELSE IF Has(CtorOf(client.id).prototype, key)
             THEN Get(CtorOf(client.id).prototype, key)
        ELSE Undefined

\* Mutant: the assignment goes to the prototype, so it shows on every object
\* of the same definition
AssignPrototype(h, client, key, v) ==
    [id \in DOMAIN h |->
        IF CtorOf(id) = CtorOf(client.id)
        THEN [own |-> [k \in DOMAIN h[id].own \cup {key} |->
                          IF k = key THEN v ELSE h[id].own[k]]]
        ELSE h[id]]

\* client[key] = v
Assign(h, client, key, v) ==
    [h EXCEPT ![client.id].own =
        [k \in DOMAIN @ \cup {key} |-> IF k = key THEN v ELSE @[k]]]

\* Property access on undefined or null raises a TypeError
NotAddressable(client) == client.t \in {"undefined", "null"}

----------------------------------------------------------------------------
(* promisify, lib/tools.js lines 80-112 *)

FromCallback == [t |-> "function", kind |-> "fromCallback"]

\* The closure of lines 90-100: captures fn, client and wrapCallback
Wrapper(fn, client, wrapCallback) ==
    [t |-> "function", kind |-> "wrapper", fn |-> fn, client |-> client,
     wrapCallback |-> wrapCallback]

Returned(h) == [threw |-> FALSE, error |-> Undefined, heap |-> h]
Raised(h, e) == [threw |-> TRUE, error |-> e, heap |-> h]

\* Mutant: every operation of the tree is wrapped, whatever its type
IsCallbackTypeAlways(method) == TRUE

\* if (method.type === 'callback')
IsCallbackType(method) == method.type = "callback"

RECURSIVE patch(_, _, _, _)
RECURSIVE patchMethods(_, _, _, _, _)
RECURSIVE patchObjects(_, _, _, _, _)

\* Object.keys(tree.methods).forEach(...), from the i-th key on (lines 85-102)
patchMethods(h, wrapCallback, client, methods, i) ==
    IF i > Len(methods) THEN Returned(h)
    ELSE IF NotAddressable(client) THEN Raised(h, Err("TypeError"))
    ELSE LET method == methods[i].value
             fn     == Lookup(h, client, method.name)
             h1     == IF IsCallbackType(method)
                       THEN Assign(h, client, method.name,
                                   Wrapper(fn, client, wrapCallback))
                       ELSE h
         IN  patchMethods(h1, wrapCallback, client, methods, i + 1)

\* Object.keys(tree.objects).forEach(...), from the i-th key on (lines 105-107)
patchObjects(h, wrapCallback, client, objects, i) ==
    IF i > Len(objects) THEN Returned(h)
    ELSE IF NotAddressable(client) THEN Raised(h, Err("TypeError"))
    ELSE LET sub == Lookup(h, client, toLowerCase(objects[i].key))
             r   == patch(h, wrapCallback, sub, objects[i].value)
         IN  IF r.threw THEN r
             ELSE patchObjects(r.heap, wrapCallback, client, objects, i + 1)

\* var patch = function(client, tree) (lines 84-109)
patch(h, wrapCallback, client, t) ==
    IF "methods" \notin DOMAIN t
    THEN Raised(h, Err("TypeError"))      \* Object.keys(undefined)
    ELSE LET r == patchMethods(h, wrapCallback, client, t.methods, 1)
         IN  IF r.threw THEN r
             ELSE IF "objects" \in DOMAIN t
             THEN patchObjects(r.heap, wrapCallback, client, t.objects, 1)
             ELSE r

\* Mutant: line 81 is missing, so client.constructor is read from an absent
\* client
promisifyUnchecked(h, client, wrapCallback) ==
    IF NotAddressable(client) THEN Raised(h, Err("TypeError"))
    ELSE LET wc == IF ~Truthy(wrapCallback) THEN FromCallback ELSE wrapCallback
         IN  patch(h, wc, client, walk(1, CtorOf(client.id), Undefined, Undefined).tree)

\* promisify(client, wrapCallback)
promisify(h, client, wrapCallback) ==
    IF ~Truthy(client) THEN Raised(h, Err("client required"))
    ELSE LET wc == IF ~Truthy(wrapCallback) THEN FromCallback ELSE wrapCallback
         IN  patch(h, wc, client, walk(1, CtorOf(client.id), Undefined, Undefined).tree)

----------------------------------------------------------------------------
(* Invocation.  The run-time state threaded through a synchronous call is  *)
(*   m.futures      : promises, each [state, value, attempts, call]        *)
(*   m.origCalls    : invocations of original operations, each             *)
(*                    [fn, this, args, call, issued, threw, value, later]  *)
(*   m.cbLog        : invocations of consumer callbacks                    *)
(*   m.adapterCalls : invocations of wrapCallback                          *)
(* An operator that runs code returns [m, threw, value]: the state after   *)
(* it, and the value it returned or threw.                                 *)

\* A callback supplied by the consumer
Consumer(n) == [t |-> "function", kind |-> "consumer", n |-> n]

\* Mutant: every callback is closed over the promise of the first call
ResolverOfFirst(n) == [t |-> "function", kind |-> "resolver", promise |-> 1]

\* function(err, data) {...} of lines 66-69, closed over promise n
Resolver(n) == [t |-> "function", kind |-> "resolver", promise |-> n]

Promise(n) == [t |-> "promise", id |-> n]

HasCallback(args) == Len(args) > 0 /\ IsFunction(args[Len(args)])

\* Mutant: a promise that every resolve / reject call settles again
SettlePromiseAgain(fs, n, state, value) ==
    [fs EXCEPT ![n].state = state, ![n].value = value]

\* resolve(value) / reject(value) of a native Promise: the first call settles
\* it, every later call is ignored
SettlePromise(fs, n, state, value) ==
    IF fs[n].state = "pending"
    THEN [fs EXCEPT ![n].state = state, ![n].value = value]
    ELSE fs

\* A settlement attempt on promise n, recorded in its history
RecordAttempt(fs, n, state, value) ==
    [fs EXCEPT ![n].attempts = Append(@, [state |-> state, value |-> value])]

Attempt(fs, n, state, value) ==
    SettlePromise(RecordAttempt(fs, n, state, value), n, state, value)

\* Mutant: the callback tests err against null instead of for truthiness
ResolverBodyNullTest(fs, n, err, data) ==
    IF err # Null THEN Attempt(fs, n, "rejected", err)
    ELSE Attempt(fs, n, "resolved", data)

\* Mutant: the callback resolves the promise with the error it was given
ResolverBodyResolvesError(fs, n, err, data) ==
    IF Truthy(err) THEN Attempt(fs, n, "resolved", err)
    ELSE Attempt(fs, n, "resolved", data)

\* if (err) return reject(err); return resolve(data);   (lines 67-68)
ResolverBody(fs, n, err, data) ==
    IF Truthy(err) THEN Attempt(fs, n, "rejected", err)
    ELSE Attempt(fs, n, "resolved", data)

\* Mutant: the catch clause resolves the promise with the thrown value
CatchBodyResolves(fs, n, err) == Attempt(fs, n, "resolved", err)

\* catch (err) { return reject(err); }   (lines 70-72)
CatchBody(fs, n, err) == Attempt(fs, n, "rejected", err)

\* The original operation (origCalls[j]) invokes the callback it was given
InvokeCallback(m, j, err, data) ==
    LET cb == m.origCalls[j].args[Len(m.origCalls[j].args)]
        m1 == [m EXCEPT !.origCalls[j].issued = Append(@, [err |-> err, data |-> data])]
    IN  CASE cb.kind = "resolver" ->
               [m1 EXCEPT !.futures = ResolverBody(@, cb.promise, err, data)]
          [] cb.kind = "consumer" ->
               [m1 EXCEPT !.cbLog = Append(@, [cb |-> cb, err |-> err, data |-> data,
                                               orig |-> j])]
          [] OTHER -> m1

RECURSIVE InvokeCallbacks(_, _, _, _)
InvokeCallbacks(m, j, cbs, i) ==
    IF i > Len(cbs) THEN m
    ELSE InvokeCallbacks(InvokeCallback(m, j, cbs[i].err, cbs[i].data), j, cbs, i + 1)

\* An original operation runs: env.beh is what it does before it returns
\* (the callback invocations it makes synchronously, then a return or a throw)
ApplyOriginal(m, f, this, args, env) ==
    LET j  == Len(m.origCalls) + 1
        m1 == [m EXCEPT !.origCalls = Append(@,
                 [fn |-> f, this |-> this, args |-> args, call |-> env.call,
                  issued |-> <<>>, threw |-> env.beh.threw, value |-> env.beh.value,
                  later |-> 0])]
        m2 == IF HasCallback(args) THEN InvokeCallbacks(m1, j, env.beh.cbs, 1) ELSE m1
    IN  [m |-> m2, threw |-> env.beh.threw, value |-> env.beh.value]

RECURSIVE Apply(_, _, _, _, _)

\* args.push(callback), line 97: args is the array of line 95, which every
\* invocation of the forwarder of one wrapper call shares
Pushed(args, callback) == Append(args, callback)

\* function(callback) { args.push(callback); return fn.apply(client, args); }
\* (lines 96-99) invoked with callback, args being the array as it is now
ApplyForwarder(m, w, args, callback, env) ==
    Apply(m, w.fn, w.client, Pushed(args, callback), env)

\* A wrapCallback of the consumer: it invokes the function it is given times
\* times, each time with a callback of its own, and returns AdapterResult
Adapter(times) == [t |-> "function", kind |-> "adapter", times |-> times]
AdapterCallback(i) == [t |-> "function", kind |-> "adapterCallback", n |-> i]
AdapterResult == Str("adapted")

\* The consumer's wrapCallback runs, from its i-th invocation of the
\* forwarder on; a throw of the forwarder leaves the adapter
RECURSIVE adapter(_, _, _, _, _)
adapter(m, w, args, env, i) ==
    IF i > w.wrapCallback.times
    THEN [m |-> m, threw |-> FALSE, value |-> AdapterResult]
    ELSE LET r == ApplyForwarder(m, w, args, AdapterCallback(i), env)
         IN  IF r.threw THEN r
             ELSE adapter(r.m, w, Pushed(args, AdapterCallback(i)), env, i + 1)

\* Mutant: a promise still pending when fn returns is rejected as timed out
fromCallbackTimeout(m, w, args, env) ==
    LET n  == Len(m.futures) + 1
        m1 == [m EXCEPT !.futures = Append(@,
                 [state |-> "pending", value |-> Undefined, attempts |-> <<>>,
                  call |-> env.call])]
        r  == ApplyForwarder(m1, w, args, Resolver(n), env)
        m2 == IF r.threw
              THEN [r.m EXCEPT !.futures = CatchBody(@, n, r.value)]
              ELSE IF r.m.futures[n].state = "pending"
              THEN [r.m EXCEPT !.futures = Attempt(@, n, "rejected", Err("timeout"))]
              ELSE r.m
    IN  [m |-> m2, threw |-> FALSE, value |-> Promise(n)]

\* fromCallback(fn), lines 63-74, fn being the forwarder of wrapper w
fromCallback(m, w, args, env) ==
    LET n  == Len(m.futures) + 1
        m1 == [m EXCEPT !.futures = Append(@,
                 [state |-> "pending", value |-> Undefined, attempts |-> <<>>,
                  call |-> env.call])]
        r  == ApplyForwarder(m1, w, args, Resolver(n), env)
        m2 == IF r.threw
              THEN [r.m EXCEPT !.futures = CatchBody(@, n, r.value)]
              ELSE r.m
    IN  [m |-> m2, threw |-> FALSE, value |-> Promise(n)]

\* wrapCallback(function(callback) {...}), lines 96-99
ApplyWrapCallback(m, w, args, env) ==
    IF w.wrapCallback.kind = "adapter" THEN adapter(m, w, args, env, 1)
    ELSE fromCallback(m, w, args, env)

\* Mutant: the wrapper inspects the first argument instead of the last
TakesCallbackPathFirstArg(args) == Len(args) > 0 /\ IsFunction(args[1])

\* typeof arguments[arguments.length - 1] === 'function'   (line 91)
TakesCallbackPath(args) == HasCallback(args)

\* Mutant: on the callback path the wrapper catches what the original throws
\* and hands it to the callback
ApplyWrapperCatching(m, w, args, env) ==
    IF TakesCallbackPath(args)
    THEN LET r == Apply(m, w.fn, w.client, args, env)
         IN  IF r.threw
             THEN [m |-> [r.m EXCEPT !.cbLog = Append(@,
                            [cb |-> args[Len(args)], err |-> r.value,
                             data |-> Undefined, orig |-> Len(r.m.origCalls)])],
                   threw |-> FALSE, value |-> Undefined]
             ELSE r
    ELSE ApplyWrapCallback([m EXCEPT !.adapterCalls = @ + 1], w, args, env)

\* The dual-mode wrapper, lines 90-100, invoked with args
ApplyWrapper(m, w, args, env) ==
    IF TakesCallbackPath(args)
    THEN Apply(m, w.fn, w.client, args, env)
    ELSE ApplyWrapCallback([m EXCEPT !.adapterCalls = @ + 1], w, args, env)

\* f.apply(this, args)
Apply(m, f, this, args, env) ==
    IF ~IsFunction(f) THEN [m |-> m, threw |-> TRUE, value |-> Err("TypeError")]
    ELSE CASE f.kind = "wrapper"  -> ApplyWrapper(m, f, args, env)
           [] f.kind = "original" -> ApplyOriginal(m, f, this, args, env)
           [] OTHER -> [m |-> m, threw |-> FALSE, value |-> Undefined]

----------------------------------------------------------------------------
(* The definitions and instances the model is run on *)

\* meta objects: operation name -> { type: ... }
Metas ==
    { <<>>,
      <<E(k_get, [type |-> "promise"])>>,
      <<E(k_list, [type |-> "sync"]), E(k_get, [type |-> "callback"])>>,
      <<E(k_list, [type |-> ""]), E(k_get, [doc |-> "x"])>> }

\* no meta property, or one of Metas
MetaProps == {<<>>} \cup {<<E(k_meta, mt)>> : mt \in Metas}

KVDefs == {MkDef(k_KV, keys, <<>>) : keys \in {<<>>, <<k_get>>}}

InnerDefs ==
    { MkDef(k_Inner, <<>>, <<>>),
      MkDef(k_Inner, <<k_get>>, <<>>),
      MkDef(k_Inner, <<k_get>>, <<E(k_meta, <<E(k_get, [type |-> "promise"])>>)>>),
      MkDef(k_Inner, <<k_log, k_list>>, <<E(k_KV, MkDef(k_KV, <<k_get>>, <<>>))>>),
      MkDef(k_Inner, <<k_get>>, <<E(k_KV, MkDef(k_KV, <<>>, <<>>))>>) }

Nestings ==
    {<<>>}
    \cup {<<E(k_Inner, d)>> : d \in InnerDefs}
    \cup {<<E(k_Inner, d), E(k_KV, e)>> : d \in InnerDefs, e \in KVDefs}
    \cup {<<E(k_KV, MkDef(k_KV, <<k_get>>, <<>>)), E(k_Inner, d)>> : d \in InnerDefs}

Definitions ==
    {MkDef(k_Outer, keys, mp \o nested) :
        keys \in {<<>>, <<k_list>>, <<k_list, k_get>>, <<k_Emit, k_log>>,
                  <<k_log, k_Emit, k_get>>},
        mp \in MetaProps,
        nested \in Nestings}

\* The definitions the run-time specification is run on
CallDefinitions ==
    { MkDef(k_Outer, <<k_list, k_get>>,
            <<E(k_meta, <<E(k_get, [type |-> "promise"])>>),
              E(k_Inner, MkDef(k_Inner, <<k_get>>, <<>>))>>) }

\* The sets of sub-instances an instance of def can have: the instance
\* itself, and a sub-instance only under a live parent
LiveSets(def) ==
    {L \in SUBSET AllPaths(def) :
        /\ <<>> \in L
        /\ \A p \in L : p # <<>> => SubSeq(p, 1, Len(p) - 1) \in L}

\* An instance with the sub-instances L, each at its lower-cased accessor
MkHeap(def, L) ==
    [p \in L |->
        LET d == DefAt(def, p)
        IN  [own |-> [a \in {Accessor(d, i) : i \in {x \in Nested(d) :
                                  Append(p, Accessor(d, x)) \in L}}
                          |-> Obj(Append(p, a))]]]

\* Two instances of def that share no sub-instance, each with the
\* sub-instances L and, on every object, a data property of its own
k_opts == <<111, 112, 116, 115>>           \* "opts"

MkInstance(def, L, prefix) ==
    [id \in {prefix \o p : p \in L} |->
        LET p == SubSeq(id, Len(prefix) + 1, Len(id))
            d == DefAt(def, p)
            accessors == {Accessor(d, i) : i \in {x \in Nested(d) :
                                 Append(p, Accessor(d, x)) \in L}}
        IN  [own |-> [a \in accessors \cup {k_opts} |->
                         IF a = k_opts THEN Num(5) ELSE Obj(Append(id, a))]]]

MkTwoInstances(def, L) == MkInstance(def, L, <<>>) @@ MkInstance(def, L, <<k_second>>)

\* The trees a consumer hands to walk as third argument: what walk passes
\* itself when it recurses, a node that has a name and a value
Accumulators(name) == {[name |-> toLowerCase(name), value |-> Num(1)]}

\* What an original operation passes to its callback
CallbackArgs ==
    { [err |-> Null, data |-> Num(42)],
      [err |-> Err("E"), data |-> Undefined],
      [err |-> Num(0), data |-> Num(7)] }

\* How an original operation ends
Outcomes ==
    { [threw |-> FALSE, value |-> Num(1)],
      [threw |-> TRUE, value |-> Err("T")] }

\* What an original operation does before it returns
Behaviours ==
    {[cbs |-> c, threw |-> o.threw, value |-> o.value] :
        c \in {<<>>} \cup {<<a>> : a \in CallbackArgs}, o \in Outcomes}

\* The argument lists of the consumer's calls
ArgLists ==
    { <<>>, <<Num(1), Consumer(1)>>, <<Consumer(1), Num(1)>> }

----------------------------------------------------------------------------
(* The state machine *)

InitWith(defs) ==
    /\ ctor \in defs
    /\ heap \in {MkHeap(ctor, L) : L \in LiveSets(ctor)}
    /\ tree = Undefined
    /\ walkErr = Undefined
    /\ walkArgs = <<>>
    /\ plog = <<>>
    /\ calls = <<>>
    /\ origCalls = <<>>
    /\ futures = <<>>
    /\ cbLog = <<>>
    /\ adapterCalls = 0

Init == InitWith(CallDefinitions)

InitTree == InitWith(Definitions)

\* The consumer calls walk with argc arguments: the definition, a name, a
\* tree to populate, and one argument more.  walk is pure and promisify
\* builds its own tree, so a run either calls walk or patches.
Build(argc, name, acc) ==
    /\ walkArgs = <<>> /\ tree = Undefined /\ walkErr = Undefined
    /\ plog = <<>>
    /\ LET r == walk(argc, IF argc = 0 THEN Undefined ELSE ctor, name, acc)
       IN  /\ tree' = r.tree
           /\ walkErr' = r.error
           /\ walkArgs' = <<argc, name, acc>>
    /\ UNCHANGED <<ctor, heap, plog, calls, origCalls, futures, cbLog, adapterCalls>>

\* The consumer calls promisify(client, wrapCallback).  Instances are patched
\* before their operations are used.
Promisify(client, wrapCallback) ==
    /\ Len(plog) < MaxPromisify
    /\ calls = <<>>
    /\ walkArgs = <<>>
    /\ LET r == promisify(heap, client, wrapCallback)
       IN  /\ heap' = r.heap
           /\ plog' = Append(plog, [client |-> client, threw |-> r.threw,
                                    error |-> r.error])
    /\ UNCHANGED <<ctor, tree, walkErr, walkArgs, calls, origCalls, futures, cbLog, adapterCalls>>

Machine == [futures |-> futures, origCalls |-> origCalls, cbLog |-> cbLog,
            adapterCalls |-> adapterCalls]

SetMachine(m) ==
    /\ futures' = m.futures
    /\ origCalls' = m.origCalls
    /\ cbLog' = m.cbLog
    /\ adapterCalls' = m.adapterCalls

\* The consumer calls heap[p][key](args...); beh is what the original
\* operation does when the call reaches it
Call(p, key, args, beh) ==
    /\ LET f == Lookup(heap, Obj(p), key)
           r == Apply(Machine, f, Obj(p), args, [beh |-> beh, call |-> Len(calls) + 1])
       IN  /\ IsFunction(f)
           /\ (f.kind = "original" /\ ~HasCallback(args)) => beh.cbs = <<>>
           /\ SetMachine(r.m)
           /\ calls' = Append(calls,
                 [this |-> Obj(p), key |-> key, args |-> args, fn |-> f,
                  threw |-> r.threw, value |-> r.value,
                  adapted |-> r.m.adapterCalls - adapterCalls])
    /\ UNCHANGED <<ctor, heap, tree, walkErr, walkArgs, plog>>

Invoke(p, key, args, beh) == Len(calls) < MaxCalls /\ Call(p, key, args, beh)

RECURSIVE SumLater(_)
SumLater(i) == IF i = 0 THEN 0 ELSE origCalls[i].later + SumLater(i - 1)
LaterTotal == SumLater(Len(origCalls))

\* The original operation of origCalls[j] invokes its callback after it
\* returned or threw
Later(j, a) ==
    /\ HasCallback(origCalls[j].args)
    /\ SetMachine(InvokeCallback([Machine EXCEPT !.origCalls[j].later = @ + 1],
                                 j, a.err, a.data))
    /\ UNCHANGED <<ctor, heap, tree, walkErr, walkArgs, plog, calls>>

CallbackLater(j, a) == LaterTotal < MaxLater /\ Later(j, a)

NextTree ==
    \/ \E argc \in 0..4, name \in {k_Outer, k_kv} :
          \E acc \in Accumulators(name) : Build(argc, name, acc)
    \/ \E client \in {Obj(<<>>), Undefined} : Promisify(client, Undefined)

Next ==
    \/ Promisify(Obj(<<>>), Undefined)
    \/ \E p \in DOMAIN heap : \E key \in Keys(CtorOf(p).prototype) :
          \E args \in ArgLists, beh \in Behaviours : Invoke(p, key, args, beh)
    \/ \E j \in 1..Len(origCalls), a \in CallbackArgs : CallbackLater(j, a)

Spec == Init /\ [][Next]_vars

\* The same run-time steps with a wrapCallback of the consumer
Adapters == {Adapter(times) : times \in 0..MaxAdapterCalls}

NextAdapter ==
    \/ \E wc \in Adapters : Promisify(Obj(<<>>), wc)
    \/ \E p \in DOMAIN heap : \E key \in Keys(CtorOf(p).prototype) :
          \E args \in ArgLists, beh \in Behaviours : Invoke(p, key, args, beh)
    \/ \E j \in 1..Len(origCalls), a \in CallbackArgs : CallbackLater(j, a)

SpecAdapter == Init /\ [][NextAdapter]_vars

SpecTree == InitTree /\ [][NextTree]_vars

\* Several calls outstanding at a time on an instance patched once: each
\* operation returns without invoking its callback, and the callbacks are
\* invoked afterwards in any order
PatchOnce == plog = <<>> /\ Promisify(Obj(<<>>), Undefined)

Outstanding == [cbs |-> <<>>, threw |-> FALSE, value |-> Num(1)]

Start(p, key, args) ==
    /\ plog # <<>>
    /\ Len(calls) < MaxOutstanding
    /\ Call(p, key, args, Outstanding)

Complete(j, a) == LaterTotal < MaxCompletions /\ Later(j, a)

NextConcurrent ==
    \/ PatchOnce
    \/ \E p \in DOMAIN heap : \E key \in Keys(CtorOf(p).prototype) :
          \E args \in {<<Num(1)>>, <<Num(2)>>} : Start(p, key, args)
    \/ \E j \in 1..Len(origCalls), a \in CallbackArgs : Complete(j, a)

SpecConcurrent == Init /\ [][NextConcurrent]_vars

\* promisify on one of two instances of a definition
InitFrame ==
    /\ ctor \in Definitions
    /\ heap \in {MkTwoInstances(ctor, L) : L \in LiveSets(ctor)}
    /\ tree = Undefined
    /\ walkErr = Undefined
    /\ walkArgs = <<>>
    /\ plog = <<>>
    /\ calls = <<>>
    /\ origCalls = <<>>
    /\ futures = <<>>
    /\ cbLog = <<>>
    /\ adapterCalls = 0

NextFrame == \E client \in {Obj(<<>>), Undefined} : Promisify(client, Undefined)

SpecFrame == InitFrame /\ [][NextFrame]_vars

----------------------------------------------------------------------------
(* Vocabulary of the properties *)

\* The original operation a slot value finally forwards to
RECURSIVE Innermost(_)
Innermost(f) == IF f.kind = "wrapper" THEN Innermost(f.fn) ELSE f

CallIds == 1..Len(calls)
OrigsOf(c) == {j \in 1..Len(origCalls) : origCalls[j].call = c}
FuturesOf(c) == {n \in 1..Len(futures) : futures[n].call = c}

\* Call c went to a patched operation, with / without a trailing callback
OnCallbackPath(c) == calls[c].fn.kind = "wrapper" /\ HasCallback(calls[c].args)
OnPromisePath(c) == calls[c].fn.kind = "wrapper" /\ ~HasCallback(calls[c].args)

\* What the consumer's callbacks received from original invocation j
Delivered(j) ==
    LET FromJ(e) == e.orig = j
        log == SelectSeq(cbLog, FromJ)
    IN  [i \in 1..Len(log) |-> [err |-> log[i].err, data |-> log[i].data]]

DeliveredTo(j) ==
    {cbLog[i].cb : i \in {x \in 1..Len(cbLog) : cbLog[x].orig = j}}

\* Callback invocations original invocation j made before it returned
SyncIssued(j) == Len(origCalls[j].issued) - origCalls[j].later

\* C1: a patched "callback"-mode operation invoked with a trailing callback
\* invokes the original exactly once, on the patched object, with exactly the
\* supplied arguments, returns what the original returns, does not invoke the
\* adapter and creates no future; the callback receives exactly what the
\* original passes to it.
C1_CallbackPassThrough ==
    \A c \in CallIds : OnCallbackPath(c) =>
        /\ Cardinality(OrigsOf(c)) = 1
        /\ \A j \in OrigsOf(c) :
              /\ origCalls[j].fn = Innermost(calls[c].fn)
              /\ origCalls[j].fn = Original(CtorOf(calls[c].this.id).name, calls[c].key)
              /\ origCalls[j].this = calls[c].this
              /\ origCalls[j].args = calls[c].args
              /\ calls[c].threw = origCalls[j].threw
              /\ calls[c].value = origCalls[j].value
              /\ Delivered(j) = origCalls[j].issued
              /\ DeliveredTo(j) \subseteq {calls[c].args[Len(calls[c].args)]}
        /\ calls[c].adapted = 0
        /\ FuturesOf(c) = {}

C1_Witness ==
    \E c \in CallIds :
        /\ OnCallbackPath(c)
        /\ ~calls[c].threw /\ calls[c].value = Num(1)
        /\ \E j \in OrigsOf(c) : Len(origCalls[j].issued) = 2

\* The promise call c returned
FutureOf(c) == futures[calls[c].value.id]

\* C2: with the default adapter, a patched "callback"-mode operation invoked
\* without a trailing callback (zero arguments included) returns a future;
\* when the original's invocation of the appended callback with (err, data)
\* is the first settlement, the future is rejected with err if err is truthy
\* and resolved with data otherwise.
C2_PromisePath ==
    \A c \in CallIds : OnPromisePath(c) =>
        /\ ~calls[c].threw
        /\ calls[c].value.t = "promise"
        /\ FuturesOf(c) = {calls[c].value.id}
        /\ \A j \in OrigsOf(c) :
              LET first == origCalls[j].issued[1]
              IN  (/\ origCalls[j].issued # <<>>
                   /\ (SyncIssued(j) > 0 \/ ~origCalls[j].threw))
                  => IF first.err.t \in {"undefined", "null"} \/ first.err = Num(0)
                     THEN FutureOf(c).state = "resolved" /\ FutureOf(c).value = first.data
                     ELSE FutureOf(c).state = "rejected" /\ FutureOf(c).value = first.err

C2_Witness ==
    /\ \E c \in CallIds :
          /\ OnPromisePath(c) /\ calls[c].args = <<>>
          /\ FutureOf(c).state = "resolved" /\ FutureOf(c).value = Num(7)
          /\ \E j \in OrigsOf(c) : SyncIssued(j) = 0

C2_WitnessRejected ==
    \E c \in CallIds :
        /\ OnPromisePath(c) /\ calls[c].args = <<Consumer(1), Num(1)>>
        /\ FutureOf(c).state = "rejected" /\ FutureOf(c).value = Err("E")

\* C3: a future settles at most once: while no settlement was attempted it is
\* pending, and from the first attempt on it has that attempt's outcome and
\* value, whatever attempts follow.
C3_SettlesOnce ==
    \A n \in 1..Len(futures) :
        IF futures[n].attempts = <<>>
        THEN futures[n].state = "pending"
        ELSE /\ futures[n].state = futures[n].attempts[1].state
             /\ futures[n].value = futures[n].attempts[1].value

\* a callback invocation, then a throw, then another callback invocation
C3_Witness ==
    \E n \in 1..Len(futures) :
        /\ Len(futures[n].attempts) = 3
        /\ futures[n].attempts[1].state = "resolved"
        /\ futures[n].attempts[2] = [state |-> "rejected", value |-> Err("T")]
        /\ futures[n].attempts[3] = [state |-> "rejected", value |-> Err("E")]

\* C4: when the original operation throws E before it invokes the callback,
\* the promise-path call does not throw: it returns a future rejected with E.
C4_ThrowRejects ==
    \A c \in CallIds : OnPromisePath(c) =>
        \A j \in OrigsOf(c) :
            (origCalls[j].threw /\ SyncIssued(j) = 0) =>
                /\ ~calls[c].threw
                /\ calls[c].value.t = "promise"
                /\ FutureOf(c).state = "rejected"
                /\ FutureOf(c).value = origCalls[j].value

C4_Witness ==
    \E c \in CallIds :
        /\ OnPromisePath(c)
        /\ \E j \in OrigsOf(c) :
              origCalls[j].threw /\ origCalls[j].value = Err("T")
                /\ origCalls[j].issued # <<>> /\ SyncIssued(j) = 0
        /\ FutureOf(c).state = "rejected" /\ FutureOf(c).value = Err("T")

\* C5 as stated: on the callback path nothing is ever thrown out of the
\* wrapper; an error of the original (callback error channel or synchronous
\* throw) reaches the supplied callback.
C5_NeverThrown ==
    \A c \in CallIds : OnCallbackPath(c) =>
        /\ ~calls[c].threw
        /\ \A j \in OrigsOf(c) :
              origCalls[j].threw =>
                  \E i \in 1..Len(cbLog) :
                      cbLog[i].orig = j /\ cbLog[i].err = origCalls[j].value

\* C5, amended: on the callback path every error the original passes on its
\* callback error channel reaches the supplied callback, and only that is
\* delivered to it; a synchronous throw of the original is not turned into a
\* callback invocation but leaves the wrapper as the same thrown value, and
\* the wrapper throws in no other case.
C5_CallbackErrors ==
    \A c \in CallIds : OnCallbackPath(c) =>
        \A j \in OrigsOf(c) :
            /\ \A i \in 1..Len(origCalls[j].issued) :
                  /\ i <= Len(Delivered(j))
                  /\ Delivered(j)[i].err = origCalls[j].issued[i].err
            /\ Len(Delivered(j)) = Len(origCalls[j].issued)
            /\ calls[c].threw <=> origCalls[j].threw
            /\ calls[c].threw => calls[c].value = origCalls[j].value

C5_Witness ==
    \E c \in CallIds :
        /\ OnCallbackPath(c)
        /\ calls[c].threw /\ calls[c].value = Err("T")
        /\ \E j \in OrigsOf(c) :
              /\ Len(origCalls[j].issued) = 2
              /\ origCalls[j].issued[1].err = Err("E")

\* The type walk records for operation key of definition def
DescriptorType(def, key) == MethodType(def, key)

\* walk records a descriptor for key
HasDescriptor(def, key) == Has(def.prototype, key) /\ MatchLower(key)

\* C8: an operation whose descriptor type is not "callback" keeps its slot:
\* the live object still yields the function the prototype holds, and calling
\* it without a trailing callback invokes no adapter and creates no future.
C8_NonCallbackUntouched ==
    \A p \in DOMAIN heap : \A key \in Keys(CtorOf(p).prototype) :
        (HasDescriptor(CtorOf(p), key) /\ DescriptorType(CtorOf(p), key) # "callback")
        => /\ Lookup(heap, Obj(p), key) = Get(CtorOf(p).prototype, key)
           /\ \A c \in CallIds :
                 (calls[c].this = Obj(p) /\ calls[c].key = key) =>
                     /\ calls[c].fn = Original(CtorOf(p).name, key)
                     /\ calls[c].adapted = 0
                     /\ FuturesOf(c) = {}
                     /\ calls[c].value.t # "promise"

C8_Witness ==
    /\ plog # <<>> /\ ~plog[1].threw
    /\ Lookup(heap, Obj(<<>>), k_list).kind = "wrapper"
    /\ \E c \in CallIds :
          /\ calls[c].this = Obj(<<>>) /\ calls[c].key = k_get
          /\ Get(walk(1, ctor, Undefined, Undefined).tree.methods, k_get).type = "promise"
          /\ ~HasCallback(calls[c].args)

----------------------------------------------------------------------------
(* Properties of walk and of the patching, checked under SpecTree *)

LowercaseLeading(key) == key # <<>> /\ key[1] \in 97..122
UppercaseLeading(key) == key # <<>> /\ key[1] \in 65..90

\* The keys of a map of a tree node (none when the node has no such map)
NodeKeys(node, field) == IF field \in DOMAIN node THEN Keys(node[field]) ELSE {}

RECURSIVE KeysExact(_, _)
KeysExact(node, def) ==
    /\ NodeKeys(node, "methods") = {k \in Keys(def.prototype) : LowercaseLeading(k)}
    /\ NodeKeys(node, "objects") = {k \in Keys(def.props) : UppercaseLeading(k)}
    /\ \A k \in NodeKeys(node, "objects") :
          KeysExact(Get(node.objects, k), Get(def.props, k))

\* C9: at every node of the tree walk returns, the keys of methods are
\* exactly the lowercase-leading names of the prototype and the keys of
\* objects exactly the uppercase-leading own properties of the definition.
C9_KeySets == (tree # Undefined) => KeysExact(tree, ctor)

C9_Witness ==
    /\ tree # Undefined
    /\ "objects" \in DOMAIN tree /\ Len(tree.objects) = 2
    /\ "objects" \in DOMAIN tree.objects[1].value
    /\ Keys(ctor.prototype) = {k_log, k_Emit, k_get}
    /\ NodeKeys(tree, "methods") = {k_get}
    /\ Has(ctor.props, k_meta)

\* The metadata entry of operation key in definition def, if any
HasMetaEntry(def, key) == Has(def.props, k_meta) /\ Has(Get(def.props, k_meta), key)
MetaEntry(def, key) == Get(Get(def.props, k_meta), key)

RECURSIVE TypesAsGiven(_, _)
TypesAsGiven(node, def) ==
    /\ \A k \in NodeKeys(node, "methods") :
          Get(node.methods, k).type =
              IF HasMetaEntry(def, k) /\ "type" \in DOMAIN MetaEntry(def, k)
              THEN MetaEntry(def, k).type
              ELSE "callback"
    /\ \A k \in NodeKeys(node, "objects") :
          TypesAsGiven(Get(node.objects, k), Get(def.props, k))

RECURSIVE TypesAsGivenIfTruthy(_, _)
TypesAsGivenIfTruthy(node, def) ==
    /\ \A k \in NodeKeys(node, "methods") :
          Get(node.methods, k).type =
              IF /\ HasMetaEntry(def, k)
                 /\ "type" \in DOMAIN MetaEntry(def, k)
                 /\ MetaEntry(def, k).type # ""
              THEN MetaEntry(def, k).type
              ELSE "callback"
    /\ \A k \in NodeKeys(node, "objects") :
          TypesAsGivenIfTruthy(Get(node.objects, k), Get(def.props, k))

\* C10 as stated: a descriptor's type is the type the metadata map gives for
\* the name whenever the map has an entry with a type, else "callback".
C10_TypeFromMeta == (tree # Undefined) => TypesAsGiven(tree, ctor)

\* C10, amended: a descriptor's type is the type the metadata map gives for
\* the name when that type is truthy; it is "callback" in every other case
\* (no map, no entry, an entry without a type, or a falsy type such as "").
C10_TruthyTypeFromMeta == (tree # Undefined) => TypesAsGivenIfTruthy(tree, ctor)

C10_Witness ==
    /\ tree # Undefined
    /\ HasMetaEntry(ctor, k_list) /\ MetaEntry(ctor, k_list).type = ""
    /\ HasMetaEntry(ctor, k_get) /\ "type" \notin DOMAIN MetaEntry(ctor, k_get)
    /\ NodeKeys(tree, "methods") = {k_list, k_get}
    /\ \E k \in NodeKeys(tree, "objects") :
          \E g \in NodeKeys(Get(tree.objects, k), "methods") :
              Get(Get(tree.objects, k).methods, g).type = "promise"

\* promisify was called on the instance
PromisifiedInstance(i) == plog[i].client = Obj(<<>>)

\* Every definition of the tree declares a lowercase-leading operation
EveryNodeHasOperations ==
    \A p \in AllPaths(ctor) : \E k \in Keys(DefAt(ctor, p).prototype) : LowercaseLeading(k)

\* Every "callback"-type operation of the live object p is a dual-mode
\* wrapper around p's own original operation, with p as receiver
DualModed(p) ==
    \A k \in Keys(CtorOf(p).prototype) :
        (LowercaseLeading(k) /\ DescriptorType(CtorOf(p), k) = "callback")
        => Lookup(heap, Obj(p), k) =
               Wrapper(Original(CtorOf(p).name, k), Obj(p), FromCallback)

\* C6 as stated: when a declared nested capability has no live object at its
\* accessor, promisify raises no error and patches everything else.
C6_SilentSkip ==
    \A i \in 1..Len(plog) :
        (/\ Len(plog) = 1
         /\ PromisifiedInstance(i)
         /\ EveryNodeHasOperations
         /\ DOMAIN heap # AllPaths(ctor))
        => /\ ~plog[i].threw
           /\ \A p \in DOMAIN heap : DualModed(p)

\* C7 as stated: after promisify, every "callback"-type operation of every
\* node reached through live accessors is dual-moded on its live object.
C7_EveryDepth ==
    \A i \in 1..Len(plog) :
        (Len(plog) = 1 /\ PromisifiedInstance(i) /\ DOMAIN heap = AllPaths(ctor))
        => \A p \in DOMAIN heap : DualModed(p)

----------------------------------------------------------------------------
(* The arity of walk, checked under SpecTree *)

\* The fields of the tree handed to walk are kept in the tree it returns
KeepsFields(acc, t) == \A f \in DOMAIN acc : f \in DOMAIN t /\ t[f] = acc[f]

\* C11: walk accepts one, two or three arguments.  With any other number it
\* raises "invalid arguments" without reading the definition and returns no
\* tree; with one argument the root is named after the definition, with two
\* after the given name, and with three the given tree is populated and
\* returned with the fields it had.
C11_Arity ==
    (walkArgs # <<>>) =>
        LET argc == walkArgs[1]
            name == walkArgs[2]
            acc  == walkArgs[3]
        IN  IF argc \notin {1, 2, 3}
            THEN tree = Undefined /\ walkErr = Err("invalid arguments")
            ELSE /\ walkErr = Undefined /\ tree # Undefined
                 /\ KeysExact(tree, ctor)
                 /\ (argc = 1) => (tree.name = ctor.name /\ "value" \notin DOMAIN tree)
                 /\ (argc = 2) => (tree.name = name /\ "value" \notin DOMAIN tree)
                 /\ (argc = 3) => KeepsFields(acc, tree)

C11_Witness ==
    /\ walkArgs # <<>> /\ walkArgs[1] = 3
    /\ tree # Undefined /\ tree.name = k_kv /\ tree.value = Num(1)
    /\ "methods" \in DOMAIN tree /\ "objects" \in DOMAIN tree

C11_WitnessRejected ==
    /\ walkArgs # <<>> /\ walkArgs[1] \in {0, 4}
    /\ tree = Undefined /\ walkErr = Err("invalid arguments")

C11_WitnessNamed ==
    /\ walkArgs # <<>> /\ walkArgs[1] = 2 /\ walkArgs[2] = k_kv
    /\ tree # Undefined /\ tree.name = k_kv /\ ctor.name = k_Outer

----------------------------------------------------------------------------
(* promisify and an absent client, checked under SpecTree *)

\* The promisify call a step makes, if it makes one
PromisifyStep == Len(plog') = Len(plog) + 1
LastPromisify == plog'[Len(plog')]

\* C12: promisify called with an absent client throws "client required" out
\* of the call itself, and no object has been modified when it does.
C12_ClientRequired ==
    [][(PromisifyStep /\ ~Truthy(LastPromisify.client))
         => /\ LastPromisify.threw
            /\ LastPromisify.error = Err("client required")
            /\ heap' = heap]_vars

C12_Witness ==
    /\ plog # <<>>
    /\ plog[Len(plog)].client = Undefined
    /\ plog[Len(plog)].threw /\ plog[Len(plog)].error = Err("client required")
    /\ \A p \in DOMAIN heap : \A key \in Keys(CtorOf(p).prototype) :
          Lookup(heap, Obj(p), key) = Get(CtorOf(p).prototype, key)

----------------------------------------------------------------------------
(* Patching again, checked under SpecTree *)

\* How many wrappers are nested in the function f
RECURSIVE Depth(_)
Depth(f) == IF f.kind = "wrapper" THEN 1 + Depth(f.fn) ELSE 0

\* Every layer of f is a wrapper with receiver p and the default adapter
RECURSIVE LayersOf(_, _)
LayersOf(f, p) ==
    (f.kind = "wrapper")
    => /\ f.client = Obj(p) /\ f.wrapCallback = FromCallback
       /\ LayersOf(f.fn, p)

\* The promisify calls made on the instance
InstanceCalls == {i \in 1..Len(plog) : PromisifiedInstance(i)}

\* Every "callback"-type slot of every live object holds n nested wrappers
\* around that object's original operation
NestedDeep(n) ==
    \A p \in DOMAIN heap : \A k \in Keys(CtorOf(p).prototype) :
        (LowercaseLeading(k) /\ DescriptorType(CtorOf(p), k) = "callback")
        => LET f == Lookup(heap, Obj(p), k)
           IN  /\ Depth(f) = n
               /\ Innermost(f) = Original(CtorOf(p).name, k)
               /\ LayersOf(f, p)

\* C13 as stated: after n calls of promisify on the instance, the slot of
\* each "callback"-type operation holds a wrapper nested n deep around the
\* original, the wrapper of each call capturing the one before it.
C13_NestedNDeep == NestedDeep(Cardinality(InstanceCalls))

\* What the code does keep: when each of the n calls returned, the nesting
\* is n deep everywhere.
RewrapsWhenReturned ==
    (\A i \in InstanceCalls : ~plog[i].threw) => NestedDeep(Cardinality(InstanceCalls))

RewrapsWitness ==
    /\ Cardinality(InstanceCalls) = 2 /\ \A i \in InstanceCalls : ~plog[i].threw
    /\ DOMAIN heap = AllPaths(ctor) /\ <<k_inner, k_kv>> \in DOMAIN heap
    /\ Depth(Lookup(heap, Obj(<<k_inner, k_kv>>), k_get)) = 2

----------------------------------------------------------------------------
(* One error, one channel: checked under Spec *)

\* Original invocation j returned and reported one thing, an error, on the
\* error channel of the callback it was given
ReportsOneError(j) ==
    /\ ~origCalls[j].threw
    /\ Len(origCalls[j].issued) = 1
    /\ Truthy(origCalls[j].issued[1].err)

\* C14: when the original operation of a call on a patched operation
\* reports an error once, the error is delivered once, on the channel the
\* call chose: with a trailing callback that callback receives it and no
\* future exists; without one the returned future is rejected with it by a
\* single settlement and no function of the caller is invoked.
C14_OneChannel ==
    \A c \in CallIds : (calls[c].fn.kind = "wrapper") =>
        \A j \in OrigsOf(c) : ReportsOneError(j) =>
            LET e == origCalls[j].issued[1]
            IN  /\ ~calls[c].threw
                /\ IF HasCallback(calls[c].args)
                   THEN /\ Delivered(j) = <<e>>
                        /\ DeliveredTo(j) = {calls[c].args[Len(calls[c].args)]}
                        /\ FuturesOf(c) = {}
                        /\ calls[c].value.t # "promise"
                   ELSE /\ FuturesOf(c) = {calls[c].value.id}
                        /\ FutureOf(c).state = "rejected"
                        /\ FutureOf(c).value = e.err
                        /\ FutureOf(c).attempts = <<[state |-> "rejected", value |-> e.err]>>
                        /\ \A i \in 1..Len(cbLog) : cbLog[i].orig # j

\* the error is reported after the call returned, to a wrapper nested twice
C14_Witness ==
    \E c \in CallIds :
        /\ OnPromisePath(c) /\ calls[c].args = <<Consumer(1), Num(1)>>
        /\ Depth(calls[c].fn) = 2
        /\ \E j \in OrigsOf(c) :
              /\ ReportsOneError(j) /\ origCalls[j].later = 1
              /\ origCalls[j].issued[1].err = Err("E")
        /\ FutureOf(c).state = "rejected" /\ cbLog = <<>>

C14_WitnessCallback ==
    \E c \in CallIds :
        /\ OnCallbackPath(c)
        /\ \E j \in OrigsOf(c) : ReportsOneError(j) /\ Len(Delivered(j)) = 1
        /\ futures = <<>>

----------------------------------------------------------------------------
(* Pending until the callback: checked under Spec *)

\* How often original invocation j has tried to settle the future of its
\* call: once per callback invocation, once more if it threw
Settlements(j) ==
    Len(origCalls[j].issued) + (IF origCalls[j].threw THEN 1 ELSE 0)

\* C15: a promise-path call invokes the original operation once, and its
\* future is pending exactly as long as that invocation has neither invoked
\* its callback nor thrown: nothing else ever settles it (no timeout, no
\* retry), and the first invocation of the callback settles it at once.
C15_PendingUntilCallback ==
    \A c \in CallIds : OnPromisePath(c) =>
        /\ Cardinality(OrigsOf(c)) = 1
        /\ calls[c].value.t = "promise"
        /\ \A j \in OrigsOf(c) :
              /\ (FutureOf(c).state = "pending") <=> (Settlements(j) = 0)
              /\ Len(FutureOf(c).attempts) = Settlements(j)

\* the call returned, the operation has not invoked its callback
C15_Witness ==
    \E c \in CallIds :
        /\ OnPromisePath(c) /\ calls[c].value.t = "promise"
        /\ FutureOf(c).state = "pending"
        /\ \E j \in OrigsOf(c) :
              HasCallback(origCalls[j].args) /\ origCalls[j].issued = <<>>

\* the operation invoked its callback after the call returned
C15_WitnessLater ==
    \E c \in CallIds :
        /\ OnPromisePath(c) /\ calls[c].value.t = "promise"
        /\ FutureOf(c).state = "resolved"
        /\ \E j \in OrigsOf(c) : origCalls[j].later = 1 /\ Len(origCalls[j].issued) = 1

----------------------------------------------------------------------------
(* A wrapCallback of the consumer: checked under SpecAdapter *)

\* The arguments args followed by one callback
OneCallbackAppended(args, forwarded) ==
    /\ Len(forwarded) = Len(args) + 1
    /\ SubSeq(forwarded, 1, Len(args)) = args
    /\ IsFunction(forwarded[Len(forwarded)])

\* C16 as stated: however often the adapter invokes the function it is
\* given, every invocation of the original operation receives the supplied
\* arguments followed by one callback, and the call returns what the adapter
\* returned.
C16_ForwardsArguments ==
    \A c \in CallIds : OnPromisePath(c) =>
        /\ \A j \in OrigsOf(c) : OneCallbackAppended(calls[c].args, origCalls[j].args)
        /\ (~calls[c].threw) => calls[c].value = AdapterResult

\* What the code does keep: the first invocation, and the returned value
ForwardsArgumentsOnce ==
    \A c \in CallIds : OnPromisePath(c) =>
        /\ \A j \in OrigsOf(c) :
              (\A i \in OrigsOf(c) : j <= i)
              => OneCallbackAppended(calls[c].args, origCalls[j].args)
        /\ \A j \in OrigsOf(c) :
              Len(origCalls[j].args) =
                  Len(calls[c].args) + Cardinality({i \in OrigsOf(c) : i <= j})
        /\ (~calls[c].threw) => calls[c].value = AdapterResult

----------------------------------------------------------------------------
(* The shape of tree nodes, checked under SpecTree *)

RECURSIVE NodeShape(_)
NodeShape(node) ==
    /\ "name" \in DOMAIN node
    /\ "methods" \in DOMAIN node
    /\ "objects" \in DOMAIN node
    /\ \A k \in Keys(node.objects) : NodeShape(Get(node.objects, k))

\* C17 as stated: every node of the tree walk returns, at every depth, has a
\* name, a methods map and an objects map, the map being empty when the
\* definition has no lowercase-leading operation or no uppercase-leading
\* nested definition.
C17_NodeShape == (tree # Undefined) => NodeShape(tree)

\* What the code does keep: every node has a name, and a map exactly when
\* it has an entry for it
RECURSIVE NodeShapeLazy(_, _)
NodeShapeLazy(node, def) ==
    /\ "name" \in DOMAIN node
    /\ ("methods" \in DOMAIN node) <=> (\E k \in Keys(def.prototype) : LowercaseLeading(k))
    /\ ("objects" \in DOMAIN node) <=> (\E k \in Keys(def.props) : UppercaseLeading(k))
    /\ \A k \in NodeKeys(node, "objects") :
          NodeShapeLazy(Get(node.objects, k), Get(def.props, k))

MapsOnlyWhenNeeded == (tree # Undefined) => NodeShapeLazy(tree, ctor)

----------------------------------------------------------------------------
(* promisify on a complete instance, checked under SpecTree *)

\* C18 as stated: when every nested definition has its live object at its
\* accessor, promisify on the instance returns without raising, also when a
\* definition of the tree declares no lowercase-leading operation.
C18_RunsToCompletion ==
    \A i \in 1..Len(plog) :
        (PromisifiedInstance(i) /\ DOMAIN heap = AllPaths(ctor)) => ~plog[i].threw

\* What the code does keep: it returns when, besides, every definition of
\* the tree declares a lowercase-leading operation
CompletesWithOperations ==
    \A i \in 1..Len(plog) :
        (PromisifiedInstance(i) /\ DOMAIN heap = AllPaths(ctor) /\ EveryNodeHasOperations)
        => ~plog[i].threw

----------------------------------------------------------------------------
(* What promisify leaves alone, checked under SpecFrame *)

\* The two instances as they were made
FirstLive == {id \in DOMAIN heap : ~IsSecond(id)}
AsMade == MkTwoInstances(ctor, FirstLive)

\* key is a "callback"-type operation of the definition of object id
CallbackSlot(id, key) ==
    /\ Has(CtorOf(id).prototype, key) /\ LowercaseLeading(key)
    /\ DescriptorType(CtorOf(id), key) = "callback"

\* C20: promisify writes only to the slots of "callback"-type operations
\* of the instance it patches and of the sub-instances it visits.  Every
\* property an object had is still there with its value, every property an
\* object gained is such a slot on an object of the patched instance, and a
\* second instance of the same definition still yields, for every key of
\* the prototype, the function the definition holds.
C20_Frame ==
    /\ DOMAIN heap = DOMAIN AsMade
    /\ \A id \in DOMAIN heap :
          /\ \A k \in DOMAIN AsMade[id].own :
                k \in DOMAIN heap[id].own /\ heap[id].own[k] = AsMade[id].own[k]
          /\ \A k \in DOMAIN heap[id].own \ DOMAIN AsMade[id].own :
                ~IsSecond(id) /\ CallbackSlot(id, k)
          /\ IsSecond(id) =>
                \A k \in Keys(CtorOf(id).prototype) :
                    Lookup(heap, Obj(id), k) = Get(CtorOf(id).prototype, k)

\* the instance and a sub-instance two levels down are patched
C20_Witness ==
    /\ plog # <<>> /\ ~plog[1].threw /\ plog[1].client = Obj(<<>>)
    /\ <<k_inner, k_kv>> \in DOMAIN heap
    /\ Has(ctor.prototype, k_list) /\ Has(CtorOf(<<k_inner, k_kv>>).prototype, k_get)
    /\ Lookup(heap, Obj(<<>>), k_list).kind = "wrapper"
    /\ Lookup(heap, Obj(<<k_inner, k_kv>>), k_get).kind = "wrapper"
    /\ Lookup(heap, Obj(<<k_second>>), k_list).kind = "original"
    /\ Lookup(heap, Obj(<<k_second, k_inner, k_kv>>), k_get).kind = "original"
    /\ Has(ctor.props, k_meta)

----------------------------------------------------------------------------
(* Calls outstanding together, checked under SpecConcurrent *)

\* What the invocation of the callback of lines 66-69 with a asks of its
\* promise
Asked(a) ==
    IF Truthy(a.err) THEN [state |-> "rejected", value |-> a.err]
    ELSE [state |-> "resolved", value |-> a.data]

\* C19: the futures of promise-path calls are independent, in whatever
\* order the original operations invoke their callbacks: each call has one
\* future and one original invocation, which receives the arguments of that
\* call followed by the callback of that call's future; the settlements
\* asked of a future are exactly the invocations of its own call's
\* callback, in their order and with their values.
C19_Independent ==
    \A c \in CallIds : OnPromisePath(c) =>
        /\ calls[c].value.t = "promise"
        /\ FuturesOf(c) = {calls[c].value.id}
        /\ \A d \in CallIds : (d # c /\ OnPromisePath(d)) => calls[d].value # calls[c].value
        /\ Cardinality(OrigsOf(c)) = 1
        /\ \A j \in OrigsOf(c) :
              /\ origCalls[j].args = Append(calls[c].args, Resolver(calls[c].value.id))
              /\ FutureOf(c).attempts =
                     [i \in 1..Len(origCalls[j].issued) |-> Asked(origCalls[j].issued[i])]
              /\ (origCalls[j].issued # <<>>) =>
                     /\ FutureOf(c).state = Asked(origCalls[j].issued[1]).state
                     /\ FutureOf(c).value = Asked(origCalls[j].issued[1]).value
              /\ (origCalls[j].issued = <<>>) => FutureOf(c).state = "pending"

\* two calls of the same operation are outstanding and the callback of the
\* second is invoked first
C19_Witness ==
    /\ Len(calls) = 2
    /\ OnPromisePath(1) /\ OnPromisePath(2)
    /\ calls[1].key = calls[2].key /\ calls[1].this = calls[2].this
    /\ calls[1].args = <<Num(1)>> /\ calls[2].args = <<Num(2)>>
    /\ FutureOf(1).state = "pending"
    /\ FutureOf(2).state = "rejected" /\ FutureOf(2).value = Err("E")

\* calls of different operations, both settled, each by its own callback
C19_WitnessBoth ==
    /\ Len(calls) = 2
    /\ OnPromisePath(1) /\ OnPromisePath(2)
    /\ calls[1].this # calls[2].this
    /\ FutureOf(1).state = "resolved" /\ FutureOf(1).value = Num(42)
    /\ FutureOf(2).state = "rejected" /\ FutureOf(2).value = Err("E")


====
